---- MODULE Spec2Model ----
(***************************************************************************)
(* A model of cppcodegen (include/cppcodegen.h): the Indent value, and the *)
(* Snippet, Block and Class text accumulators with their Add, Out and      *)
(* IncrementIndent operations.  std::string is a TLA+ string; lines are    *)
(* split the way std::getline splits them.                                 *)
(***************************************************************************)
EXTENDS Integers, Sequences, FiniteSets, TLC

VARIABLES snippet, block, cls, log, ops

vars == <<snippet, block, cls, log, ops>>

\* ------------------------------------------------------------------ bounds
\* number of calls a run makes
MaxOps == 3
\* cap on a node's own indent level (std::size_t in the source)
MaxLevel == 2

\* ------------------------------------------------------------- constants
kDefaultIndentSize == 2

kPublic == "kPublic"
kProtected == "kProtected"
kPrivate == "kPrivate"
AccessSpecifier == {kPublic, kProtected, kPrivate}

\* default arguments
DefaultAccess == kPrivate
DefaultIncrement == 1

NL == "\n"

\* ----------------------------------------------------------------- Indent
\* the constructor's loop: character repeated size times
RECURSIVE IndentString(_, _)
IndentString(character, size) ==
  IF size = 0 THEN "" ELSE IndentString(character, size - 1) \o character

Indent(level, size, character) ==
  [level_ |-> level, size_ |-> size, character_ |-> character,
   indent_string_ |-> IndentString(character, size)]

DefaultIndent == Indent(0, kDefaultIndentSize, " ")

\* the loop of Indenting(): indent_string_ appended while level < level_
RECURSIVE IndentingLoop(_, _, _)
IndentingLoop(ind, level, total_indent) ==
  IF level < ind.level_
    THEN IndentingLoop(ind, level + 1, total_indent \o ind.indent_string_)
    ELSE total_indent

\* mutant: the loop runs once too often (level <= level_)
IndentingInclusive(ind) == IndentingLoop(ind, 0, ind.indent_string_)

Indenting(ind) == IndentingLoop(ind, 0, "")

\* ---------------------------------------------------------------- getline
\* index of the first newline of s at or after i, 0 when there is none
RECURSIVE FindNewline(_, _)
FindNewline(s, i) ==
  IF i > Len(s) THEN 0
  ELSE IF SubSeq(s, i, i) = NL THEN i
  ELSE FindNewline(s, i + 1)

\* while (std::getline(line_stream, line)): the lines of s, newline dropped;
\* a last line without newline counts, an empty rest does not
RECURSIVE GetLines(_)
GetLines(s) ==
  IF s = "" THEN <<>>
  ELSE LET n == FindNewline(s, 1)
       IN  IF n = 0 THEN <<s>>
           ELSE <<SubSeq(s, 1, n - 1)>> \o GetLines(SubSeq(s, n + 1, Len(s)))

\* ---------------------------------------------------------------- Snippet
SnippetLine(indent) ==
  [indent_ |-> indent, header_ |-> "", footer_ |-> "", type_ |-> "kLine",
   lines_ |-> <<>>]

SnippetSystemInclude(indent) ==
  [indent_ |-> indent, header_ |-> "#include <", footer_ |-> ">",
   type_ |-> "kSystemInclude", lines_ |-> <<>>]

SnippetLocalInclude(base_dir_path, indent) ==
  [indent_ |-> indent, header_ |-> "#include \"" \o base_dir_path,
   footer_ |-> "\"", type_ |-> "kLocalInclude", lines_ |-> <<>>]

RECURSIVE SnippetOutLoop(_, _)
SnippetOutLoop(s, i) ==
  IF i > Len(s.lines_) THEN ""
  ELSE Indenting(s.indent_) \o s.lines_[i] \o NL \o SnippetOutLoop(s, i + 1)

SnippetOut(s) == SnippetOutLoop(s, 1)

\* mutant: the footer is left out
SnippetAddNoFooter(s, line) ==
  [s EXCEPT !.lines_ = Append(@, s.header_ \o line)]

\* Add(const std::string &)
SnippetAdd(s, line) ==
  [s EXCEPT !.lines_ = Append(@, s.header_ \o line \o s.footer_)]

\* Add(const T &any): out is any.Out()
SnippetAddAny(s, out) ==
  [s EXCEPT !.lines_ = @ \o GetLines(out)]

\* Add(const std::vector<std::string> &)
RECURSIVE SnippetAddLines(_, _)
SnippetAddLines(s, lines) ==
  IF lines = <<>> THEN s
  ELSE SnippetAddLines(SnippetAdd(s, Head(lines)), Tail(lines))

\* mutant: the level argument is ignored, the level grows by one
SnippetIncrementIndentByOne(s, level) ==
  [s EXCEPT !.indent_.level_ = @ + 1]

SnippetIncrementIndent(s, level) ==
  [s EXCEPT !.indent_.level_ = @ + level]

\* ------------------------------------------------------------------ Block
BlockCodeBlock(indent) ==
  [indent_ |-> indent, header_ |-> "{\n", footer_ |-> "}\n",
   type_ |-> "kCodeBlock", snippets_ |-> <<>>]

BlockDefinition(declaration, indent) ==
  [indent_ |-> indent, header_ |-> declaration \o " {\n", footer_ |-> "}\n",
   type_ |-> "kDefinition", snippets_ |-> <<>>]

BlockNamespace(name, indent) ==
  [indent_ |-> indent, header_ |-> "namespace " \o name \o " {\n",
   footer_ |-> "}\n", type_ |-> "kNamespace", snippets_ |-> <<>>]

\* for (const auto &snippet : snippets) block += snippet.Out();
RECURSIVE SnippetsOut(_)
SnippetsOut(snippets) ==
  IF snippets = <<>> THEN ""
  ELSE SnippetOut(Head(snippets)) \o SnippetsOut(Tail(snippets))

BlockOut(b) ==
  Indenting(b.indent_) \o b.header_ \o SnippetsOut(b.snippets_)
    \o Indenting(b.indent_) \o b.footer_

\* mutant: the child inherits the fill character of its owner
SnippetCopyFill(indent) ==
  SnippetLine(Indent(indent.level_ + 1, indent.size_, indent.character_))

\* Snippet snippet_copy(line_t, Indent(indent_.level_ + 1, indent_.size_))
SnippetCopy(indent) ==
  SnippetLine(Indent(indent.level_ + 1, indent.size_, " "))

\* Add(const T &any) with T = std::string
BlockAdd(b, line) ==
  [b EXCEPT !.snippets_ = Append(@, SnippetAdd(SnippetCopy(b.indent_), line))]

\* mutant: the node's render is stored as one text, not split into lines
BlockAddAnyAsText(b, out) ==
  [b EXCEPT !.snippets_ = Append(@, SnippetAdd(SnippetCopy(b.indent_), out))]

\* Add(const T &any) with a node: out is any.Out()
BlockAddAny(b, out) ==
  [b EXCEPT !.snippets_ = Append(@, SnippetAddAny(SnippetCopy(b.indent_), out))]

\* mutant: the lines of one call are batched into one child snippet
BlockAddLinesBatched(b, lines) ==
  [b EXCEPT !.snippets_ = Append(@, SnippetAddLines(SnippetCopy(b.indent_), lines))]

RECURSIVE BlockAddLines(_, _)
BlockAddLines(b, lines) ==
  IF lines = <<>> THEN b
  ELSE BlockAddLines(BlockAdd(b, Head(lines)), Tail(lines))

\* mutant: the children are not re-indented
BlockIncrementIndentOwnOnly(b, level) ==
  [b EXCEPT !.indent_.level_ = @ + level]

BlockIncrementIndent(b, level) ==
  [b EXCEPT !.indent_.level_ = @ + level,
            !.snippets_ = [i \in DOMAIN @ |-> SnippetIncrementIndent(@[i], level)]]

\* ------------------------------------------------------------------ Class
Class(name, indent) ==
  [indent_ |-> indent, name_ |-> name, header_ |-> " {\n", footer_ |-> "};\n",
   type_ |-> "kCodeBlock", snippets_ |-> [a \in AccessSpecifier |-> <<>>]]

\* mutant: the label depends on the bucket's render, not on its emptiness
ClassSectionIfRendered(c, access, label) ==
  IF SnippetsOut(c.snippets_[access]) # ""
    THEN Indenting(c.indent_) \o label \o SnippetsOut(c.snippets_[access])
    ELSE ""

\* one if-block of Out(): the label and the bucket's snippets, when non-empty
ClassSection(c, access, label) ==
  IF c.snippets_[access] # <<>>
    THEN Indenting(c.indent_) \o label \o SnippetsOut(c.snippets_[access])
    ELSE ""

\* mutant: the buckets in the order the constructor lists them
ClassOutPrivateFirst(c) ==
  Indenting(c.indent_) \o "class " \o c.name_ \o c.header_
    \o ClassSection(c, kPrivate, " private:\n")
    \o ClassSection(c, kPublic, " public:\n")
    \o ClassSection(c, kProtected, " protected:\n")
    \o Indenting(c.indent_) \o c.footer_

ClassOut(c) ==
  Indenting(c.indent_) \o "class " \o c.name_ \o c.header_
    \o ClassSection(c, kPublic, " public:\n")
    \o ClassSection(c, kProtected, " protected:\n")
    \o ClassSection(c, kPrivate, " private:\n")
    \o Indenting(c.indent_) \o c.footer_

ClassAdd(c, line, access_specifier) ==
  [c EXCEPT !.snippets_[access_specifier] =
              Append(@, SnippetAdd(SnippetCopy(c.indent_), line))]

ClassAddAny(c, out, access_specifier) ==
  [c EXCEPT !.snippets_[access_specifier] =
              Append(@, SnippetAddAny(SnippetCopy(c.indent_), out))]

RECURSIVE ClassAddLines(_, _, _)
ClassAddLines(c, lines, access_specifier) ==
  IF lines = <<>> THEN c
  ELSE ClassAddLines(ClassAdd(c, Head(lines), access_specifier), Tail(lines),
                     access_specifier)

ClassIncrementIndent(c, level) ==
  [c EXCEPT !.indent_.level_ = @ + level,
            !.snippets_ = [a \in AccessSpecifier |->
               [i \in DOMAIN @[a] |-> SnippetIncrementIndent(@[a][i], level)]]]

\* ------------------------------------------------------------------ inputs
Texts == {"int x;", "y"}
LineSeqs == {<<"int x;", "y">>, <<>>}
Levels == {2}
\* the texts Class::Add is called with, each with its access specifier
AccessTexts ==
  {<<"int x;", kPublic>>, <<"y", kProtected>>, <<"int x;", kPrivate>>}

\* the constructions a run starts from: snippet, block, class
Constructions ==
  {<<SnippetSystemInclude(DefaultIndent), BlockNamespace("N", DefaultIndent),
     Class("X", DefaultIndent)>>,
   <<SnippetLine(Indent(1, 2, " ")),
     BlockDefinition("void f()", Indent(1, 1, ".")),
     Class("X", Indent(1, 2, "."))>>,
   <<SnippetLocalInclude("d/", Indent(0, 1, ".")),
     BlockCodeBlock(Indent(0, 3, " ")),
     Class("X", Indent(0, 1, " "))>>}

\* one entry of log, a call as the caller made it.  kind "line": Add(arg);
\* "lines": Add of the sequence arg; "any": Add of a node, arg its Out() at
\* the call; "inc": IncrementIndent, arg <<>> when the level is omitted and
\* <<level>> otherwise.  access is the access specifier passed to Class::Add,
\* "omitted" when none was passed, "none" for the other calls.
Call(kind, arg, access) == [kind |-> kind, arg |-> arg, access |-> access]

Init ==
  /\ \E c \in Constructions :
       snippet = c[1] /\ block = c[2] /\ cls = c[3]
  /\ log = [snippet |-> <<>>, block |-> <<>>, cls |-> <<>>]
  /\ ops = 0

\* ---------------------------------------------------------------- actions
Step == ops < MaxOps /\ ops' = ops + 1

SnippetAddText ==
  \E line \in Texts :
    /\ Step
    /\ snippet' = SnippetAdd(snippet, line)
    /\ log' = [log EXCEPT !.snippet = Append(@, Call("line", line, "none"))]
    /\ UNCHANGED <<block, cls>>

SnippetAddSeq ==
  \E lines \in LineSeqs :
    /\ Step
    /\ snippet' = SnippetAddLines(snippet, lines)
    /\ log' = [log EXCEPT !.snippet = Append(@, Call("lines", lines, "none"))]
    /\ UNCHANGED <<block, cls>>

SnippetAddBlock ==
  /\ Step
  /\ snippet' = SnippetAddAny(snippet, BlockOut(block))
  /\ log' = [log EXCEPT !.snippet = Append(@, Call("any", BlockOut(block), "none"))]
  /\ UNCHANGED <<block, cls>>

SnippetAddClass ==
  /\ Step
  /\ snippet' = SnippetAddAny(snippet, ClassOut(cls))
  /\ log' = [log EXCEPT !.snippet = Append(@, Call("any", ClassOut(cls), "none"))]
  /\ UNCHANGED <<block, cls>>

\* mutant: the Block holds the Snippet it absorbed by reference, so that
\* re-indenting the Snippet shifts the lines the Block holds
SnippetIncLive ==
  \E a \in {<<>>} \cup {<<l>> : l \in Levels} :
    LET level == IF a = <<>> THEN DefaultIncrement ELSE a[1]
        shift == IndentString(snippet.indent_.character_, level * snippet.indent_.size_)
        Shifted(child) ==
          [child EXCEPT !.lines_ = [l \in DOMAIN child.lines_ |-> shift \o child.lines_[l]]]
    IN  /\ Step
        /\ snippet.indent_.level_ + level <= MaxLevel
        /\ snippet' = SnippetIncrementIndent(snippet, level)
        /\ log' = [log EXCEPT !.snippet = Append(@, Call("inc", a, "none"))]
        /\ block' = [block EXCEPT !.snippets_ =
                       [i \in DOMAIN block.snippets_ |-> Shifted(block.snippets_[i])]]
        /\ UNCHANGED cls

SnippetInc ==
  \/ /\ Step
     /\ snippet.indent_.level_ + DefaultIncrement <= MaxLevel
     /\ snippet' = SnippetIncrementIndent(snippet, DefaultIncrement)
     /\ log' = [log EXCEPT !.snippet = Append(@, Call("inc", <<>>, "none"))]
     /\ UNCHANGED <<block, cls>>
  \/ \E level \in Levels :
       /\ Step
       /\ snippet.indent_.level_ + level <= MaxLevel
       /\ snippet' = SnippetIncrementIndent(snippet, level)
       /\ log' = [log EXCEPT !.snippet = Append(@, Call("inc", <<level>>, "none"))]
       /\ UNCHANGED <<block, cls>>

BlockAddText ==
  \E line \in Texts :
    /\ Step
    /\ block' = BlockAdd(block, line)
    /\ log' = [log EXCEPT !.block = Append(@, Call("line", line, "none"))]
    /\ UNCHANGED <<snippet, cls>>

BlockAddSeq ==
  \E lines \in LineSeqs :
    /\ Step
    /\ block' = BlockAddLines(block, lines)
    /\ log' = [log EXCEPT !.block = Append(@, Call("lines", lines, "none"))]
    /\ UNCHANGED <<snippet, cls>>

BlockAddSnippet ==
  /\ Step
  /\ block' = BlockAddAny(block, SnippetOut(snippet))
  /\ log' = [log EXCEPT !.block = Append(@, Call("any", SnippetOut(snippet), "none"))]
  /\ UNCHANGED <<snippet, cls>>

BlockAddClass ==
  /\ Step
  /\ block' = BlockAddAny(block, ClassOut(cls))
  /\ log' = [log EXCEPT !.block = Append(@, Call("any", ClassOut(cls), "none"))]
  /\ UNCHANGED <<snippet, cls>>

BlockInc ==
  \/ /\ Step
     /\ block.indent_.level_ + DefaultIncrement <= MaxLevel
     /\ block' = BlockIncrementIndent(block, DefaultIncrement)
     /\ log' = [log EXCEPT !.block = Append(@, Call("inc", <<>>, "none"))]
     /\ UNCHANGED <<snippet, cls>>
  \/ \E level \in Levels :
       /\ Step
       /\ block.indent_.level_ + level <= MaxLevel
       /\ block' = BlockIncrementIndent(block, level)
       /\ log' = [log EXCEPT !.block = Append(@, Call("inc", <<level>>, "none"))]
       /\ UNCHANGED <<snippet, cls>>

ClassAddText ==
  \E arg \in AccessTexts :
    /\ Step
    /\ cls' = ClassAdd(cls, arg[1], arg[2])
    /\ log' = [log EXCEPT !.cls = Append(@, Call("line", arg[1], arg[2]))]
    /\ UNCHANGED <<snippet, block>>

\* Add(line) with the access specifier omitted
ClassAddTextDefault ==
  \E line \in {"y"} :
    /\ Step
    /\ cls' = ClassAdd(cls, line, DefaultAccess)
    /\ log' = [log EXCEPT !.cls = Append(@, Call("line", line, "omitted"))]
    /\ UNCHANGED <<snippet, block>>

\* Add(lines) with the access specifier omitted, Add(lines, kProtected)
ClassAddSeq ==
  \E lines \in LineSeqs :
    \/ /\ Step
       /\ cls' = ClassAddLines(cls, lines, DefaultAccess)
       /\ log' = [log EXCEPT !.cls = Append(@, Call("lines", lines, "omitted"))]
       /\ UNCHANGED <<snippet, block>>
    \/ /\ Step
       /\ lines # <<>>
       /\ cls' = ClassAddLines(cls, lines, kProtected)
       /\ log' = [log EXCEPT !.cls = Append(@, Call("lines", lines, kProtected))]
    /\ UNCHANGED <<snippet, block>>

ClassAddSnippet ==
  \E access \in {kPublic, kPrivate} :
    /\ Step
    /\ cls' = ClassAddAny(cls, SnippetOut(snippet), access)
    /\ log' = [log EXCEPT !.cls = Append(@, Call("any", SnippetOut(snippet), access))]
    /\ UNCHANGED <<snippet, block>>

ClassAddBlock ==
  \E access \in {kProtected} :
    /\ Step
    /\ cls' = ClassAddAny(cls, BlockOut(block), access)
    /\ log' = [log EXCEPT !.cls = Append(@, Call("any", BlockOut(block), access))]
    /\ UNCHANGED <<snippet, block>>

ClassInc ==
  \/ /\ Step
     /\ cls.indent_.level_ + DefaultIncrement <= MaxLevel
     /\ cls' = ClassIncrementIndent(cls, DefaultIncrement)
     /\ log' = [log EXCEPT !.cls = Append(@, Call("inc", <<>>, "none"))]
     /\ UNCHANGED <<snippet, block>>
  \/ \E level \in Levels :
       /\ Step
       /\ cls.indent_.level_ + level <= MaxLevel
       /\ cls' = ClassIncrementIndent(cls, level)
       /\ log' = [log EXCEPT !.cls = Append(@, Call("inc", <<level>>, "none"))]
       /\ UNCHANGED <<snippet, block>>

Next ==
  \/ SnippetAddText
  \/ SnippetAddSeq
  \/ SnippetAddBlock
  \/ SnippetAddClass
  \/ SnippetInc
  \/ BlockAddText
  \/ BlockAddSeq
  \/ BlockAddSnippet
  \/ BlockAddClass
  \/ BlockInc
  \/ ClassAddText
  \/ ClassAddTextDefault
  \/ ClassAddSeq
  \/ ClassAddSnippet
  \/ ClassAddBlock
  \/ ClassInc

Spec == Init /\ [][Next]_vars


\* ------------------------------------------------- what the claims refer to
\* ch repeated n times
RECURSIVE Rep(_, _)
Rep(ch, n) == IF n <= 0 THEN "" ELSE ch \o Rep(ch, n - 1)

Spaces(n) == Rep(" ", n)

\* every character of s is ch
RECURSIVE AllChars(_, _)
AllChars(s, ch) ==
  \/ s = ""
  \/ SubSeq(s, 1, 1) = ch /\ AllChars(SubSeq(s, 2, Len(s)), ch)

StartsWith(s, p) == Len(p) <= Len(s) /\ SubSeq(s, 1, Len(p)) = p

EndsWith(s, p) ==
  Len(p) <= Len(s) /\ SubSeq(s, Len(s) - Len(p) + 1, Len(s)) = p

\* the lines joined again, each closed by a newline
RECURSIVE JoinLines(_)
JoinLines(lines) ==
  IF lines = <<>> THEN "" ELSE Head(lines) \o NL \o JoinLines(Tail(lines))

\* each line of lines behind the prefix p and closed by a newline
RECURSIVE Render(_, _)
Render(lines, p) ==
  IF lines = <<>> THEN "" ELSE p \o Head(lines) \o NL \o Render(Tail(lines), p)

\* text from its i-th character on, with p put in front of each of its lines
RECURSIVE PrefixEach(_, _, _)
PrefixEach(text, p, i) ==
  IF i > Len(text) THEN ""
  ELSE LET n == FindNewline(text, i)
       IN  IF n = 0 THEN p \o SubSeq(text, i, Len(text))
           ELSE p \o SubSeq(text, i, n) \o PrefixEach(text, p, n + 1)

\* the calls of calls that create a child of a Block or Class, in call order:
\* one per text, one per element of a sequence, one per absorbed node
RECURSIVE SeqCalls(_, _)
SeqCalls(lines, access) ==
  IF lines = <<>> THEN <<>>
  ELSE <<Call("line", Head(lines), access)>> \o SeqCalls(Tail(lines), access)

RECURSIVE ChildCalls(_)
ChildCalls(calls) ==
  IF calls = <<>> THEN <<>>
  ELSE LET c == Head(calls)
       IN  (CASE c.kind = "lines" -> SeqCalls(c.arg, c.access)
              [] c.kind = "inc" -> <<>>
              [] OTHER -> <<c>>) \o ChildCalls(Tail(calls))

\* the bucket a call of Class::Add names
Routed(c) == IF c.access = "omitted" THEN kPrivate ELSE c.access

IsRouted(c, access) == Routed(c) = access

BucketCalls(access) ==
  LET Here(c) == IsRouted(c, access) IN SelectSeq(ChildCalls(log.cls), Here)

\* the level argument of an "inc" call
IncLevel(c) == IF c.arg = <<>> THEN 1 ELSE c.arg[1]

\* the indent in front of a node's own lines, from its level, width and fill
OwnIndent(node) ==
  Rep(node.indent_.character_, node.indent_.level_ * node.indent_.size_)

\* the width of the indent in front of the lines of a node's children
ChildWidth(node) == (node.indent_.level_ + 1) * node.indent_.size_

\* the render of the children the calls create, from the calls alone
RECURSIVE MembersOut(_, _)
MembersOut(calls, p) ==
  IF calls = <<>> THEN ""
  ELSE (IF Head(calls).kind = "any"
          THEN PrefixEach(Head(calls).arg, p, 1)
          ELSE p \o Head(calls).arg \o NL) \o MembersOut(Tail(calls), p)

\* every Indent value the state holds
AllSnippets ==
  {snippet} \cup {block.snippets_[i] : i \in DOMAIN block.snippets_}
    \cup UNION {{cls.snippets_[a][i] : i \in DOMAIN cls.snippets_[a]} :
                a \in AccessSpecifier}

AllIndents == {block.indent_, cls.indent_} \cup {s.indent_ : s \in AllSnippets}

\* ----------------------------------------------------------------- claims
\* C1: after any sequence of Add and IncrementIndent calls, every child
\* snippet of the Block, and of each bucket of the Class, has the indent
\* level of its owner plus one.
C1_ChildrenOneDeeper ==
  /\ \A i \in DOMAIN block.snippets_ :
       block.snippets_[i].indent_.level_ = block.indent_.level_ + 1
  /\ \A a \in AccessSpecifier : \A i \in DOMAIN cls.snippets_[a] :
       cls.snippets_[a][i].indent_.level_ = cls.indent_.level_ + 1

\* a Block re-indented between two Adds: a child from before and one from after
C1_Witness ==
  /\ Len(log.block) = 3
  /\ log.block[1].kind = "line"
  /\ log.block[2].kind = "inc" /\ IncLevel(log.block[2]) > 0
  /\ log.block[3].kind = "any"
  /\ Len(block.snippets_) = 2

\* C9: Indenting() of every Indent is level * unit width characters long and
\* made of the fill character alone (the empty string at level 0).
C9_IndentingShape ==
  \A ind \in AllIndents :
    /\ Len(Indenting(ind)) = ind.level_ * ind.size_
    /\ AllChars(Indenting(ind), ind.character_)
    /\ ind.level_ = 0 => Indenting(ind) = ""

\* an Indent of width 3 at level 3 and one with the fill character "." at level 2
C9_Witness ==
  /\ \E ind \in AllIndents : ind.size_ = 3 /\ ind.level_ = 3
  /\ \E ind \in AllIndents : ind.character_ = "." /\ ind.level_ = 2

\* C10: every child snippet of a Block or Class has its owner's unit width
\* and the fill character space; in the render the header and footer lines
\* (and the access labels) start with the owner's indent in the owner's fill
\* character, and every child line starts with (level + 1) * width spaces.
C10_ChildrenIndentWithSpaces ==
  /\ \A i \in DOMAIN block.snippets_ :
       LET child == block.snippets_[i]
       IN  /\ child.indent_.size_ = block.indent_.size_
           /\ child.indent_.character_ = " "
           /\ SnippetOut(child) = Render(child.lines_, Spaces(ChildWidth(block)))
  /\ \A a \in AccessSpecifier : \A i \in DOMAIN cls.snippets_[a] :
       LET child == cls.snippets_[a][i]
       IN  /\ child.indent_.size_ = cls.indent_.size_
           /\ child.indent_.character_ = " "
           /\ SnippetOut(child) = Render(child.lines_, Spaces(ChildWidth(cls)))
  /\ LET out == BlockOut(block)
         own == OwnIndent(block)
     IN  /\ StartsWith(out, own \o block.header_)
         /\ EndsWith(out, own \o block.footer_)
  /\ LET out == ClassOut(cls)
         own == OwnIndent(cls)
         first == IF cls.snippets_[kPublic] # <<>> THEN " public:\n"
                  ELSE IF cls.snippets_[kProtected] # <<>> THEN " protected:\n"
                  ELSE IF cls.snippets_[kPrivate] # <<>> THEN " private:\n"
                  ELSE cls.footer_
     IN  /\ StartsWith(out, own \o "class " \o cls.name_ \o cls.header_
                              \o own \o first)
         /\ EndsWith(out, own \o cls.footer_)

\* a Block and a Class with the fill character ".", re-indented, with children
C10_Witness ==
  /\ block.indent_.character_ = "." /\ block.indent_.level_ = 2
  /\ Len(block.snippets_) = 1 /\ block.snippets_[1].lines_ # <<>>
  /\ cls.indent_.character_ = "."
  /\ cls.snippets_[kPublic] # <<>> /\ cls.snippets_[kPublic][1].lines_ # <<>>

\* the frame of IncrementIndent(k) on one snippet: the level and the length
\* of the indent prefix grow, everything else stays
SnippetShifted(s, t, k) ==
  /\ t.indent_.level_ = s.indent_.level_ + k
  /\ t = [s EXCEPT !.indent_.level_ = t.indent_.level_]
  /\ Len(Indenting(t.indent_)) = Len(Indenting(s.indent_)) + k * s.indent_.size_
  /\ GetLines(SnippetOut(t)) =
       [l \in DOMAIN s.lines_ |->
          Rep(s.indent_.character_, k * s.indent_.size_)
            \o GetLines(SnippetOut(s))[l]]

IsInc(old, new) ==
  /\ Len(new) = Len(old) + 1
  /\ new[Len(new)].kind = "inc"

\* C2: IncrementIndent(k), k = 1 when omitted, raises the level of the node
\* and of every child snippet by exactly k and changes nothing else: the
\* children's number, order and lines, header, footer and unit width stay,
\* and every child line's indent prefix grows by k * unit width characters.
C2_IncrementIndentFrame ==
  [][/\ IsInc(log.snippet, log'.snippet) =>
          /\ SnippetShifted(snippet, snippet', IncLevel(log'.snippet[Len(log'.snippet)]))
          /\ UNCHANGED <<block, cls>>
     /\ IsInc(log.block, log'.block) =>
          LET k == IncLevel(log'.block[Len(log'.block)])
          IN  /\ block'.indent_.level_ = block.indent_.level_ + k
              /\ Len(block'.snippets_) = Len(block.snippets_)
              /\ \A i \in DOMAIN block.snippets_ :
                   SnippetShifted(block.snippets_[i], block'.snippets_[i], k)
              /\ [block' EXCEPT !.snippets_ = <<>>] =
                   [block EXCEPT !.snippets_ = <<>>,
                                 !.indent_.level_ = block'.indent_.level_]
              /\ UNCHANGED <<snippet, cls>>
     /\ IsInc(log.cls, log'.cls) =>
          LET k == IncLevel(log'.cls[Len(log'.cls)])
          IN  /\ cls'.indent_.level_ = cls.indent_.level_ + k
              /\ \A a \in AccessSpecifier :
                   /\ Len(cls'.snippets_[a]) = Len(cls.snippets_[a])
                   /\ \A i \in DOMAIN cls.snippets_[a] :
                        SnippetShifted(cls.snippets_[a][i], cls'.snippets_[a][i], k)
              /\ [cls' EXCEPT !.snippets_ = <<>>] =
                   [cls EXCEPT !.snippets_ = <<>>,
                               !.indent_.level_ = cls'.indent_.level_]
              /\ UNCHANGED <<snippet, block>>
    ]_vars

\* a Block holding a text and an absorbed node, re-indented by 2 afterwards
C2_Witness ==
  /\ Len(log.block) = 3
  /\ log.block[1].kind = "line"
  /\ log.block[2].kind = "any" /\ log.block[2].arg # ""
  /\ log.block[3] = Call("inc", <<2>>, "none")

\* the node a log names
Node(name) == IF name = "snippet" THEN snippet
              ELSE IF name = "block" THEN block ELSE cls
NodeOut(name) == IF name = "snippet" THEN SnippetOut(snippet)
                 ELSE IF name = "block" THEN BlockOut(block) ELSE ClassOut(cls)
Nodes == {"snippet", "block", "cls"}

\* the number of newlines of text
RECURSIVE Newlines(_, _)
Newlines(text, i) ==
  IF i > Len(text) THEN 0
  ELSE (IF SubSeq(text, i, i) = NL THEN 1 ELSE 0) + Newlines(text, i + 1)

\* the stored lines of a Snippet, call by call: an absorbed node accounts for
\* as many lines as its Out() has, and they join to that Out() again
RECURSIVE AbsorbedIntoSnippet(_, _)
AbsorbedIntoSnippet(lines, calls) ==
  IF calls = <<>> THEN lines = <<>>
  ELSE LET c == Head(calls)
           n == CASE c.kind = "line" -> 1
                  [] c.kind = "lines" -> Len(c.arg)
                  [] c.kind = "any" -> Newlines(c.arg, 1)
                  [] OTHER -> 0
       IN  /\ n <= Len(lines)
           /\ c.kind = "any" => JoinLines(SubSeq(lines, 1, n)) = c.arg
           /\ AbsorbedIntoSnippet(SubSeq(lines, n + 1, Len(lines)), Tail(calls))

\* the lines an absorbing Add stored in the children of a Block or Class
\* bucket, child by child: those of the absorbed node's Out() at the call
RECURSIVE Snapshots(_, _)
Snapshots(children, calls) ==
  \/ calls = <<>>
  \/ /\ children # <<>>
     /\ Head(calls).kind = "any" =>
          JoinLines(Head(children).lines_) = Head(calls).arg
     /\ Snapshots(Tail(children), Tail(calls))

\* C5: once P absorbed X, a later Add or IncrementIndent on X changes neither
\* P's stored lines nor P.Out(); the lines P holds are those of X.Out() at
\* the moment of the Add.
C5_SnapshotOnAbsorb ==
  [][/\ \A p \in Nodes :
          log'[p] = log[p] =>
            /\ Node(p)' = Node(p)
            /\ NodeOut(p)' = NodeOut(p)
     /\ \A p \in Nodes :
          (Len(log'[p]) = Len(log[p]) + 1 /\ log'[p][Len(log'[p])].kind = "any") =>
            log'[p][Len(log'[p])].arg \in {NodeOut(x) : x \in Nodes \ {p}}
     /\ Snapshots(block.snippets_, ChildCalls(log.block))'
     /\ \A a \in AccessSpecifier : Snapshots(cls.snippets_[a], BucketCalls(a))'
    ]_vars

\* the Block absorbed the Snippet, and the Snippet was added to and
\* re-indented afterwards: its Out() is no longer what the Block holds
C5_Witness ==
  /\ log.cls = <<>>
  /\ Len(log.block) = 1 /\ log.block[1].kind = "any"
  /\ log.block[1].arg # "" /\ log.block[1].arg # SnippetOut(snippet)
  /\ Len(log.snippet) = 2
  /\ log.snippet[2].kind = "inc" /\ IncLevel(log.snippet[2]) > 0

\* the part of the Class render one bucket accounts for, from the calls alone
ExpectedSection(access, label) ==
  IF BucketCalls(access) = <<>> THEN ""
  ELSE OwnIndent(cls) \o label
         \o MembersOut(BucketCalls(access), Spaces(ChildWidth(cls)))

\* C3: whatever the interleaving of access specifiers in the Class.Add calls,
\* Class.Out() shows the members added as public first, then those added as
\* protected, then those added as private, each group in the order of the
\* calls; an Add without an access argument counts as private.
C3_ClassOutOrder ==
  ClassOut(cls) =
    OwnIndent(cls) \o "class " \o cls.name_ \o " {\n"
      \o ExpectedSection(kPublic, " public:\n")
      \o ExpectedSection(kProtected, " protected:\n")
      \o ExpectedSection(kPrivate, " private:\n")
      \o OwnIndent(cls) \o "};\n"

\* private (access omitted), private, then public: the render starts with
\* the public member and keeps the two private ones in call order
C3_Witness ==
  log.cls = <<Call("line", "y", "omitted"), Call("line", "int x;", kPrivate),
              Call("line", "int x;", kPublic)>>

\* the number of lines of the Class render that are the label line
RECURSIVE Count(_, _)
Count(lines, line) ==
  IF lines = <<>> THEN 0
  ELSE (IF Head(lines) = line THEN 1 ELSE 0) + Count(Tail(lines), line)

LabelCount(out, label) == Count(out, OwnIndent(cls) \o label)

Label(access) == IF access = kPublic THEN " public:"
                 ELSE IF access = kProtected THEN " protected:" ELSE " private:"

\* C4: Class.Out() holds the label line of an access level exactly once when
\* the bucket holds a child snippet, that is when an Add was routed to it,
\* and not at all otherwise, also when the only child absorbed an empty
\* render; with every Add on the default access the one label is " private:".
C4_LabelIffBucketNonEmpty ==
  LET out == GetLines(ClassOut(cls))
  IN  /\ \A a \in AccessSpecifier :
           /\ cls.snippets_[a] # <<>> <=> BucketCalls(a) # <<>>
           /\ Len(cls.snippets_[a]) >= 1 => LabelCount(out, Label(a)) = 1
           /\ Len(cls.snippets_[a]) = 0 => LabelCount(out, Label(a)) = 0
      /\ (/\ ChildCalls(log.cls) # <<>>
          /\ \A i \in DOMAIN log.cls :
               log.cls[i].kind = "inc" \/ log.cls[i].access = "omitted")
           => /\ LabelCount(out, " private:") = 1
              /\ LabelCount(out, " public:") = 0
              /\ LabelCount(out, " protected:") = 0

\* the public bucket holds one child that absorbed an empty render, the
\* private one a member, the protected one nothing
C4_Witness ==
  /\ Len(cls.snippets_[kPublic]) = 1 /\ cls.snippets_[kPublic][1].lines_ = <<>>
  /\ cls.snippets_[kProtected] = <<>>
  /\ log.cls[Len(log.cls)].access = "omitted"

\* the children of a Block or bucket, call by call: an absorbed node is one
\* child whose lines join to its Out() and render behind the prefix p
RECURSIVE AbsorbedIntoChildren(_, _, _)
AbsorbedIntoChildren(children, calls, p) ==
  IF calls = <<>> THEN children = <<>>
  ELSE /\ children # <<>>
       /\ Head(calls).kind = "any" =>
            /\ JoinLines(Head(children).lines_) = Head(calls).arg
            /\ SnippetOut(Head(children)) = PrefixEach(Head(calls).arg, p, 1)
       /\ AbsorbedIntoChildren(Tail(children), Tail(calls), p)

\* C6: absorbing a node stores, in one new child of the Block or Class,
\* exactly the lines of the node's Out(), which render behind the indent of
\* the owner's level + 1; a Snippet, include snippets too, stores them with
\* no header or footer; the namespace N that absorbed the class X with one
\* public line renders as the literal of the specification.
C6_AbsorbedLines ==
  /\ AbsorbedIntoChildren(block.snippets_, ChildCalls(log.block),
                          Spaces(ChildWidth(block)))
  /\ \A a \in AccessSpecifier :
       AbsorbedIntoChildren(cls.snippets_[a], BucketCalls(a),
                            Spaces(ChildWidth(cls)))
  /\ AbsorbedIntoSnippet(snippet.lines_, log.snippet)
  /\ \A line \in Texts :
       (/\ block.header_ = "namespace N {\n" /\ block.indent_ = DefaultIndent
        /\ log.block = <<Call("any", "class X {\n public:\n  " \o line \o "\n};\n",
                              "none")>>)
         => BlockOut(block) = "namespace N {\n  class X {\n   public:\n    "
                                \o line \o "\n  };\n}\n"
  /\ \A line \in Texts :
       (cls.indent_ = DefaultIndent /\ log.cls = <<Call("line", line, kPublic)>>)
         => ClassOut(cls) = "class X {\n public:\n  " \o line \o "\n};\n"

\* the namespace N absorbed the class X holding the public line "int x;",
\* and a system include snippet absorbed a node
C6_Witness ==
  /\ block.header_ = "namespace N {\n"
  /\ log.cls = <<Call("line", "int x;", kPublic)>>
  /\ log.block = <<Call("any", ClassOut(cls), "none")>>
  /\ snippet.header_ = "#include <"
  /\ Len(log.snippet) = 1 /\ log.snippet[1].kind = "any"

\* C7: Block.Out() is Indenting() + header, the render of one child per text
\* added (one per element of an added sequence), in call order, and
\* Indenting() + footer; with no child it is the header and footer lines.
C7_BlockOut ==
  /\ BlockOut(block) =
       Indenting(block.indent_) \o block.header_
         \o MembersOut(ChildCalls(log.block), Spaces(ChildWidth(block)))
         \o Indenting(block.indent_) \o block.footer_
  /\ Len(block.snippets_) = Len(ChildCalls(log.block))
  /\ \A i \in DOMAIN block.snippets_ :
       ChildCalls(log.block)[i].kind = "line" =>
         block.snippets_[i].lines_ = <<ChildCalls(log.block)[i].arg>>
  /\ block.snippets_ = <<>> =>
       BlockOut(block) = Indenting(block.indent_) \o block.header_
                           \o Indenting(block.indent_) \o block.footer_

\* a text, then a sequence of two texts: three children
C7_Witness ==
  /\ Len(log.block) = 2
  /\ log.block[1].kind = "line" /\ log.block[2].kind = "lines"
  /\ Len(block.snippets_) = 3

\* the lines a Snippet with header H and footer F stores for its calls
RECURSIVE ExpectedLines(_, _, _)
ExpectedLines(calls, H, F) ==
  IF calls = <<>> THEN <<>>
  ELSE LET c == Head(calls)
       IN  (CASE c.kind = "line" -> <<H \o c.arg \o F>>
              [] c.kind = "lines" -> ExpectedLines(SeqCalls(c.arg, "none"), H, F)
              [] c.kind = "any" -> GetLines(c.arg)
              [] OTHER -> <<>>) \o ExpectedLines(Tail(calls), H, F)

\* C8: each Add(text) on a Snippet appends the one line H + text + F (a
\* sequence one per element, in order), earlier lines stay, and Out() is
\* Indenting() + line + "\n" over the stored lines in order: "" for no
\* line, Indenting() + H + "x" + F + "\n" after a single Add("x").
C8_SnippetLinesAndOut ==
  /\ snippet.lines_ = ExpectedLines(log.snippet, snippet.header_, snippet.footer_)
  /\ SnippetOut(snippet) = Render(snippet.lines_, Indenting(snippet.indent_))
  /\ snippet.lines_ = <<>> => SnippetOut(snippet) = ""
  /\ \A x \in Texts :
       log.snippet = <<Call("line", x, "none")>> =>
         SnippetOut(snippet) =
           Indenting(snippet.indent_) \o snippet.header_ \o x \o snippet.footer_ \o NL

\* a system include snippet after Add of a text, a sequence and a re-indent
C8_Witness ==
  /\ snippet.header_ = "#include <"
  /\ Len(log.snippet) = 3
  /\ log.snippet[1].kind = "line"
  /\ log.snippet[2] = Call("lines", <<"int x;", "y">>, "none")
  /\ log.snippet[3].kind = "inc"

====
